---------------------------- MODULE Spec2Model ----------------------------
(***************************************************************************)
(* A model of ts-status-stats: the driver main() (main.py), load_config    *)
(* and Config (config.py) and TailscaleCollector (collector.py).           *)
(*                                                                         *)
(* Text is modelled in two ways.  Keys, cell values and paths are TLA+     *)
(* strings, joined with \o.  A file name template is a sequence of         *)
(* one-character strings, because str.format reads it character by        *)
(* character.                                                              *)
(***************************************************************************)
EXTENDS Integers, Sequences, FiniteSets, TLC

VARIABLES
    procs,      \* the driver processes that run main() against the base directory
    clock,      \* the wall clock that datetime.now() reads
    ticks,      \* how many seconds have passed inside calls of save_status
    cfgFile,    \* the configuration file ~/.config/ts-status.yml
    fs,         \* the regular files under the base directory: path -> content
    dirs,       \* the directories that exist
    drv,        \* per process: position in main() and its local variables
    returned,   \* history: the save_status calls that returned a path, in order
    fdoc,       \* the argument of a direct call of _flatten_dict / _prepare_record
    fsep,       \* the separator of that call
    fphase,     \* which direct call was made last
    fout        \* what that call returned

flattenVars == <<fdoc, fsep, fphase, fout>>

vars == <<procs, clock, ticks, cfgFile, fs, dirs, drv, returned, flattenVars>>

-----------------------------------------------------------------------------
(* Bounds of the model. *)

\* a process stops polling after this many cycles
MaxCycles == 3
\* at most this many seconds pass inside calls of save_status
MaxTicks == 1
\* with several processes, each stops polling after this many cycles
MaxConcurrentCycles == 1
\* a generated document has at most this many nodes
MaxNodes == 4

-----------------------------------------------------------------------------
(* Python dict: insertion-ordered, as a sequence of <<key, value>> pairs. *)

EmptyDict == <<>>

DictKeys(d) == {d[i][1] : i \in 1..Len(d)}

DictHas(d, k) == k \in DictKeys(d)

DictGet(d, k) == d[CHOOSE i \in 1..Len(d) : d[i][1] = k][2]

\* d.setdefault(k, v): an existing key keeps its value
DictSetDefault(d, k, v) ==
    IF DictHas(d, k) THEN d ELSE Append(d, <<k, v>>)

\* d[k] = v: an existing key keeps its position and takes the new value
DictSet(d, k, v) ==
    IF DictHas(d, k)
    THEN [i \in 1..Len(d) |-> IF d[i][1] = k THEN <<k, v>> ELSE d[i]]
    ELSE Append(d, <<k, v>>)

RECURSIVE DictUpdateFrom(_, _, _)
DictUpdateFrom(d, e, i) ==
    IF i > Len(e) THEN d
    ELSE DictUpdateFrom(DictSet(d, e[i][1], e[i][2]), e, i + 1)

\* d.update(e): every pair of e assigned in e's order
DictUpdate(d, e) == DictUpdateFrom(d, e, 1)

-----------------------------------------------------------------------------
(* A JSON document: a scalar, a mapping (ordered, distinct keys) or a list. *)

Scalar(v) == [t |-> "scalar", v |-> v]
Dict(items) == [t |-> "dict", items |-> items]
List(items) == [t |-> "list", items |-> items]

IsContainer(v) == v.t \in {"dict", "list"}


-----------------------------------------------------------------------------
(* TailscaleCollector._flatten_dict *)

\* the separator _flatten_dict is called with (its default)
DefaultSep == "_"

RECURSIVE flatten_dict(_, _, _)
RECURSIVE FlattenDictLoop(_, _, _, _, _)
RECURSIVE FlattenListLoop(_, _, _, _, _)

\* the key of a mapping entry: f"{parent_key}{sep}{k}" if parent_key else k
DictChildKey(parent_key, sep, k) ==
    IF parent_key # "" THEN parent_key \o sep \o k ELSE k

\* a mutant: list items counted from 1
ListChildKeyFromOne(parent_key, i) ==
    IF parent_key # "" THEN parent_key \o "_" \o ToString(i + 1) ELSE ToString(i + 1)

\* the key of a list item: f"{parent_key}_{i}" if parent_key else str(i)
ListChildKey(parent_key, i) ==
    IF parent_key # "" THEN parent_key \o "_" \o ToString(i) ELSE ToString(i)

\* items.update(<the flattened child>)
MergeChild(items, sub) ==
    DictUpdate(items, sub)

\* a mutant: a leaf stored with setdefault, the first value kept
StoreFirstWins(items, new_key, v) ==
    DictSetDefault(items, new_key, v)

\* items[new_key] = v
StoreLeaf(items, new_key, v) ==
    DictSet(items, new_key, v)

\* for k, v in obj.items(): ...   (entries from position i on)
FlattenDictLoop(entries, i, parent_key, sep, items) ==
    IF i > Len(entries) THEN items
    ELSE LET k == entries[i][1]
             v == entries[i][2]
             new_key == DictChildKey(parent_key, sep, k)
         IN  FlattenDictLoop(entries, i + 1, parent_key, sep,
                 IF IsContainer(v)
                 THEN MergeChild(items, flatten_dict(v, new_key, sep))
                 ELSE StoreLeaf(items, new_key, v.v))

\* for i, item in enumerate(obj): ...   (items from position i on; enumerate
\* counts from 0, sequences from 1)
FlattenListLoop(elems, i, parent_key, sep, items) ==
    IF i > Len(elems) THEN items
    ELSE LET item == elems[i]
             new_key == ListChildKey(parent_key, i - 1)
         IN  FlattenListLoop(elems, i + 1, parent_key, sep,
                 IF IsContainer(item)
                 THEN MergeChild(items, flatten_dict(item, new_key, sep))
                 ELSE StoreLeaf(items, new_key, item.v))

flatten_dict(obj, parent_key, sep) ==
    IF obj.t = "dict" THEN FlattenDictLoop(obj.items, 1, parent_key, sep, EmptyDict)
    ELSE IF obj.t = "list" THEN FlattenListLoop(obj.items, 1, parent_key, sep, EmptyDict)
    ELSE StoreLeaf(EmptyDict, parent_key, obj.v)

-----------------------------------------------------------------------------
(* The documents of the model. *)

\* scalar values (JSON numbers and strings, as text)
ScalarValues == {"1", "2"}

\* mapping keys of the generated documents: a plain key, the empty key and a
\* key that contains the separator
GenKeys == {"a", "", "a_0"}

RECURSIVE DocsOfSize(_)
RECURSIVE DictItemsOfSize(_, _)
RECURSIVE ListItemsOfSize(_)

\* the entry sequences with m nodes in all, over keys not in `used`
DictItemsOfSize(m, used) ==
    IF m = 0 THEN {<<>>}
    ELSE UNION { UNION { UNION { { <<<<k, d>>>> \o rest :
                                    rest \in DictItemsOfSize(m - j, used \cup {k}) } :
                                 d \in DocsOfSize(j) } :
                         j \in 1..m } :
                 k \in GenKeys \ used }

ListItemsOfSize(m) ==
    IF m = 0 THEN {<<>>}
    ELSE UNION { UNION { { <<d>> \o rest : rest \in ListItemsOfSize(m - j) } :
                         d \in DocsOfSize(j) } :
                 j \in 1..m }

\* the documents with exactly n nodes (a node: a scalar, a mapping or a list)
DocsOfSize(n) ==
    (IF n = 1 THEN {Scalar(v) : v \in ScalarValues} ELSE {})
    \cup {Dict(e) : e \in DictItemsOfSize(n - 1, {})}
    \cup {List(e) : e \in ListItemsOfSize(n - 1)}

GenDocs == UNION {DocsOfSize(n) : n \in 1..MaxNodes}

\* spec.md section 8: {"a": {"b": {"c": 1}}, "a_b": 2}
CollisionExampleDoc ==
    Dict(<< <<"a", Dict(<< <<"b", Dict(<< <<"c", Scalar("1")>> >>)>> >>)>>,
            <<"a_b", Scalar("2")>> >>)

\* {"a": {"b": 1}, "a_b": 2}: two paths that flatten to a_b
CollisionDoc ==
    Dict(<< <<"a", Dict(<< <<"b", Scalar("1")>> >>)>>, <<"a_b", Scalar("2")>> >>)

\* tests/test_collector.py: {"items": ["a","b","c"], "nested": {"list": [1,2,3]}}
ListExampleDoc ==
    Dict(<< <<"items", List(<<Scalar("x"), Scalar("y"), Scalar("z")>>)>>,
            <<"nested", Dict(<< <<"list", List(<<Scalar("1"), Scalar("2"), Scalar("3")>>)>> >>)>> >>)

\* tests/test_collector.py: {"level1": {"level2": {"level3": v}, "another": ..}, "simple": ..}
NestedExampleDoc ==
    Dict(<< <<"level1", Dict(<< <<"level2", Dict(<< <<"level3", Scalar("value")>> >>)>>,
                                <<"another", Scalar("data")>> >>)>>,
            <<"simple", Scalar("value")>> >>)

\* documents that themselves hold a path that flattens to _timestamp
TimestampDocs ==
    { Dict(<< <<"_timestamp", Scalar("1")>>, <<"a", Scalar("2")>> >>),
      Dict(<< <<"a", Scalar("1")>>, <<"", Dict(<< <<"_timestamp", Scalar("2")>> >>)>> >>),
      Dict(<< <<"b", List(<<Scalar("1")>>)>>, <<"_timestamp", Scalar("2")>> >>) }

FlattenDocs ==
    GenDocs \cup TimestampDocs
    \cup {CollisionExampleDoc, CollisionDoc, ListExampleDoc, NestedExampleDoc}

-----------------------------------------------------------------------------
(* The wall clock: a local calendar date and the second of the day. *)

SecondsPerDay == 24 * 60 * 60

IsLeap(y) == (y % 4 = 0 /\ y % 100 # 0) \/ y % 400 = 0

DaysInMonth(y, m) ==
    IF m = 2 THEN (IF IsLeap(y) THEN 29 ELSE 28)
    ELSE IF m \in {4, 6, 9, 11} THEN 30 ELSE 31

NextDay(t) ==
    IF t.day < DaysInMonth(t.year, t.month) THEN [t EXCEPT !.day = t.day + 1]
    ELSE IF t.month < 12 THEN [t EXCEPT !.month = t.month + 1, !.day = 1]
    ELSE [t EXCEPT !.year = t.year + 1, !.month = 1, !.day = 1]

\* the instant n seconds after t, for n of at most a day
AddSeconds(t, n) ==
    IF t.second + n < SecondsPerDay THEN [t EXCEPT !.second = t.second + n]
    ELSE [NextDay(t) EXCEPT !.second = t.second + n - SecondsPerDay]

Instant(y, m, d, hh, mm, ss) ==
    [year |-> y, month |-> m, day |-> d, second |-> (hh * 60 + mm) * 60 + ss]

\* a mutant: the month written without its leading zero
Pad2NoZero(n) == ToString(n)

\* f"{n:02d}"
Pad2(n) == IF n < 10 THEN "0" \o ToString(n) ELSE ToString(n)

\* f"{now.month:02d}"
MonthDir(now) == Pad2(now.month)

\* now.strftime("%Y%m%d"), for a four-digit year
DateStr(now) == ToString(now.year) \o Pad2(now.month) \o Pad2(now.day)

\* datetime.isoformat() of an instant with no microseconds
IsoFormat(now) ==
    ToString(now.year) \o "-" \o Pad2(now.month) \o "-" \o Pad2(now.day) \o "T"
    \o Pad2(now.second \div 3600) \o ":" \o Pad2((now.second \div 60) % 60)
    \o ":" \o Pad2(now.second % 60)

-----------------------------------------------------------------------------
(* TailscaleCollector._prepare_record *)

TimestampKey == "_timestamp"

\* a mutant: the capture instant stored only when the document has no such key
prepare_record_keep(status_data, now) ==
    DictSetDefault(flatten_dict(status_data, "", DefaultSep), TimestampKey, IsoFormat(now))

\* record = self._flatten_dict(status_data); record["_timestamp"] = now.isoformat()
prepare_record(status_data, now) ==
    DictSet(flatten_dict(status_data, "", DefaultSep), TimestampKey, IsoFormat(now))

-----------------------------------------------------------------------------
(* str.format(date=date_str) on a template given as a sequence of characters. *)
(* A replacement field of the model holds a plain name or nothing: no       *)
(* conversion, format spec, attribute or index.                             *)

RECURSIVE Join(_)
Join(chars) == IF chars = <<>> THEN "" ELSE Head(chars) \o Join(Tail(chars))

\* the position of the first "}" at or after i, 0 when there is none
RECURSIVE ClosingBrace(_, _)
ClosingBrace(chars, i) ==
    IF i > Len(chars) THEN 0
    ELSE IF chars[i] = "}" THEN i ELSE ClosingBrace(chars, i + 1)

FormatOk(s) == [ok |-> TRUE, s |-> s, error |-> ""]
FormatError(e) == [ok |-> FALSE, s |-> "", error |-> e]

RECURSIVE FormatFrom(_, _, _, _)
FormatFrom(chars, i, date_str, out) ==
    IF i > Len(chars) THEN FormatOk(out)
    ELSE IF chars[i] = "{" THEN
        IF i < Len(chars) /\ chars[i + 1] = "{"
        THEN FormatFrom(chars, i + 2, date_str, out \o "{")
        ELSE LET j == ClosingBrace(chars, i + 1)
                 field == IF j = 0 THEN "" ELSE Join(SubSeq(chars, i + 1, j - 1))
             IN  IF j = 0 THEN FormatError("ValueError")
                 ELSE IF field = "date" THEN FormatFrom(chars, j + 1, date_str, out \o date_str)
                 ELSE IF field = "" THEN FormatError("IndexError")
                 ELSE FormatError("KeyError")
    ELSE IF chars[i] = "}" THEN
        IF i < Len(chars) /\ chars[i + 1] = "}"
        THEN FormatFrom(chars, i + 2, date_str, out \o "}")
        ELSE FormatError("ValueError")
    ELSE FormatFrom(chars, i + 1, date_str, out \o chars[i])

\* self.file_name_format.format(date=date_str)
Format(template, date_str) == FormatFrom(template, 1, date_str, "")

\* pathlib: parent / child, for a child that is a plain name
PathJoin(parent, child) == parent \o "/" \o child

\* self.base_location / str(now.year) / f"{now.month:02d}"
YearMonthPath(base_location, now) ==
    PathJoin(PathJoin(base_location, ToString(now.year)), MonthDir(now))

-----------------------------------------------------------------------------
(* pandas: a DataFrame is its column names in order and its rows; a row maps *)
(* every column to a value, NaN where the row has none.                      *)

NaN == "NaN"

Range(seq) == {seq[i] : i \in 1..Len(seq)}

\* pd.DataFrame([record])
DataFrame(record) ==
    [columns |-> [i \in 1..Len(record) |-> record[i][1]],
     rows |-> << [k \in DictKeys(record) |-> DictGet(record, k)] >>]

\* a row widened to the columns cols
Widen(row, cols) ==
    [c \in Range(cols) |-> IF c \in DOMAIN row THEN row[c] ELSE NaN]

\* a mutant: only the columns both frames have are kept (join="inner")
ConcatInner(existing_df, df) ==
    LET cols == SelectSeq(existing_df.columns, LAMBDA c : c \in Range(df.columns))
        cut(row) == [c \in Range(cols) |-> row[c]]
    IN  [columns |-> cols,
         rows |-> [i \in 1..Len(existing_df.rows) |-> cut(existing_df.rows[i])]
                  \o [i \in 1..Len(df.rows) |-> cut(df.rows[i])]]

\* a mutant: the new row put before the rows of the file
ConcatReversed(existing_df, df) ==
    LET cols == df.columns
                \o SelectSeq(existing_df.columns, LAMBDA c : c \notin Range(df.columns))
    IN  [columns |-> cols,
         rows |-> [i \in 1..Len(df.rows) |-> Widen(df.rows[i], cols)]
                  \o [i \in 1..Len(existing_df.rows) |-> Widen(existing_df.rows[i], cols)]]

\* pd.concat([existing_df, df], ignore_index=True)
Concat(existing_df, df) ==
    LET cols == existing_df.columns
                \o SelectSeq(df.columns, LAMBDA c : c \notin Range(existing_df.columns))
    IN  [columns |-> cols,
         rows |-> [i \in 1..Len(existing_df.rows) |-> Widen(existing_df.rows[i], cols)]
                  \o [i \in 1..Len(df.rows) |-> Widen(df.rows[i], cols)]]

-----------------------------------------------------------------------------
(* The file system: a file holds a Parquet table or, after a rewrite that    *)
(* failed part-way, bytes that are no Parquet file.                          *)

Parquet(df) == [kind |-> "parquet", df |-> df]
Corrupt == [kind |-> "corrupt", df |-> [columns |-> <<>>, rows |-> <<>>]]

\* file_path.exists()
Exists(files, path) == path \in DOMAIN files

\* the files after path is (re)written with content
WriteFile(files, path, content) ==
    [p \in DOMAIN files \cup {path} |-> IF p = path THEN content ELSE files[p]]

\* Path.mkdir(parents=True, exist_ok=True) of base/year/month
MkdirParents(ds, base_location, now) ==
    ds \cup {base_location, PathJoin(base_location, ToString(now.year)),
             YearMonthPath(base_location, now)}

-----------------------------------------------------------------------------
(* config.py: the configuration file, load_config and Config.__post_init__ *)

\* a value that is not set (Python's None)
None == [none |-> TRUE]

\* "tailscale-status-{date}.parquet"
DefaultTemplate ==
    <<"t","a","i","l","s","c","a","l","e","-","s","t","a","t","u","s","-",
      "{","d","a","t","e","}",".","p","a","r","q","u","e","t">>

\* tests/test_collector.py: "ts-{date}-custom.parquet"
CustomTemplate ==
    <<"t","s","-","{","d","a","t","e","}","-","c","u","s","t","o","m",
      ".","p","a","r","q","u","e","t">>

\* "{date}-{date}.pq": the placeholder twice
TwiceTemplate == <<"{","d","a","t","e","}","-","{","d","a","t","e","}",".","p","q">>

\* "ts.pq": no placeholder
PlainTemplate == <<"t","s",".","p","q">>

\* "ts-{{date}}.pq": doubled braces, which str.format turns into single ones
EscapedTemplate == <<"t","s","-","{","{","d","a","t","e","}","}",".","p","q">>

\* "ts-{host}.pq": a replacement field that names no argument of format()
UnknownFieldTemplate == <<"t","s","-","{","h","o","s","t","}",".","p","q">>

\* the templates in which braces occur only as the placeholder {date}
PlaceholderTemplates == {DefaultTemplate, CustomTemplate, TwiceTemplate, PlainTemplate}

Templates == PlaceholderTemplates \cup {EscapedTemplate, UnknownFieldTemplate}

BaseLocations == {"/data"}

\* the file as yaml.safe_load reads it: missing, empty, or a mapping
NoConfigFile == [exists |-> FALSE, empty |-> FALSE, content |-> EmptyDict]
EmptyConfigFile == [exists |-> TRUE, empty |-> TRUE, content |-> EmptyDict]
ConfigFile(content) == [exists |-> TRUE, empty |-> FALSE, content |-> content]

ValidConfigFiles ==
    { ConfigFile(<< <<"interval", 60>>, <<"base_location", b>> >>) : b \in BaseLocations }
    \cup { ConfigFile(<< <<"interval", 60>>, <<"base_location", b>>,
                         <<"file_name_format", t>> >>) :
           b \in BaseLocations, t \in Templates \ {DefaultTemplate} }

InvalidConfigFiles ==
    { NoConfigFile, EmptyConfigFile,
      ConfigFile(EmptyDict),
      ConfigFile(<< <<"interval", 60>> >>),
      ConfigFile(<< <<"base_location", "/data">> >>),
      ConfigFile(<< <<"interval", 0>>, <<"base_location", "/data">> >>),
      ConfigFile(<< <<"interval", 0 - 1>>, <<"base_location", "/data">> >>) }

ConfigFiles == ValidConfigFiles \cup InvalidConfigFiles

Raised(e) == [ok |-> FALSE, error |-> e, config |-> None]
Loaded(c) == [ok |-> TRUE, error |-> "", config |-> c]

\* a mutant: the interval is not validated
ConfigNoCheck(interval, base_location, file_name_format) ==
    Loaded([interval |-> interval, base_location |-> base_location,
            file_name_format |-> file_name_format])

\* Config(...) and the check of __post_init__
Config(interval, base_location, file_name_format) ==
    IF interval <= 0 THEN Raised("ValueError")
    ELSE Loaded([interval |-> interval, base_location |-> base_location,
                 file_name_format |-> file_name_format])

required_fields == <<"interval", "base_location">>

load_config(file) ==
    IF ~file.exists THEN Raised("FileNotFoundError")
    ELSE IF file.empty THEN Raised("ValueError")
    ELSE LET config_dict == file.content
             missing_fields ==
                 SelectSeq(required_fields, LAMBDA f : ~DictHas(config_dict, f))
         IN  IF missing_fields # <<>> THEN Raised("ValueError")
             ELSE Config(DictGet(config_dict, "interval"),
                         DictGet(config_dict, "base_location"),
                         IF DictHas(config_dict, "file_name_format")
                         THEN DictGet(config_dict, "file_name_format")
                         ELSE DefaultTemplate)

-----------------------------------------------------------------------------
(* main.py: main() *)

\* the except clauses of main(): sys.exit(0) on KeyboardInterrupt, else sys.exit(1)
ExitCode(exception) ==
    IF exception = "KeyboardInterrupt" THEN 0 ELSE 1

\* the status documents `tailscale status --json` prints in the model
StatusDocs ==
    { Dict(<< <<"Version", Scalar("1")>>,
              <<"Self", Dict(<< <<"HostName", Scalar("x")>> >>)>> >>),
      Dict(<< <<"Version", Scalar("2")>>,
              <<"Peer", List(<<Scalar("y")>>)>> >>) }

\* the process state before main() runs
InitialProcess ==
    [pc |-> "load_config", config |-> None, collector |-> None,
     status_data |-> None, now |-> None, file_path |-> "",
     record |-> EmptyDict, df |-> None,
     error |-> "", exit_code |-> 0 - 1, cycles |-> 0, logged |-> 0, saved |-> 0,
     collect_failed |-> FALSE, failed_at |-> ""]

\* the locals of save_status and of the loop body go out of scope
DropLocals(d) ==
    [d EXCEPT !.status_data = None, !.now = None, !.file_path = "",
              !.record = EmptyDict, !.df = None]

\* sys.exit(ExitCode(exception)) in the handlers of main()
Exit(d, exception) ==
    [DropLocals(d) EXCEPT !.pc = "exited", !.error = exception,
                          !.exit_code = ExitCode(exception)]

\* a mutant: an exception of the loop body reaches the outer handlers of main()
RaiseInLoopFatal(d, exception) ==
    Exit(d, exception)

\* an exception inside the try of the loop body: control goes to
\* `except Exception as e`
RaiseInLoop(d, exception) ==
    [DropLocals(d) EXCEPT !.pc = "except", !.error = exception, !.failed_at = d.pc]

-----------------------------------------------------------------------------
(* The actions of a driver process p. *)

CycleLimit == IF Cardinality(procs) > 1 THEN MaxConcurrentCycles ELSE MaxCycles

\* what an operation on the file system may do when it can fail, and when the
\* environment is taken to be free of faults
MkdirOutcomes == {"ok", "OSError"}
NoFault == {"ok"}

\* main.py 20-27: config = load_config(), with the mkdir of Config.__post_init__
\* (mkdirs: what that mkdir may do)
LoadConfig(p, mkdirs) ==
    /\ drv[p].pc = "load_config"
    /\ LET r == load_config(cfgFile)
       IN  \E mkdir \in (IF r.ok THEN mkdirs ELSE {"not reached"}) :
             IF ~r.ok
             THEN /\ drv' = [drv EXCEPT ![p] = Exit(@, r.error)]
                  /\ dirs' = dirs
             ELSE IF mkdir # "ok"
             THEN /\ drv' = [drv EXCEPT ![p] = Exit(@, mkdir)]
                  /\ dirs' = dirs
             ELSE /\ drv' = [drv EXCEPT ![p].config = r.config, ![p].pc = "construct"]
                  /\ dirs' = dirs \cup {r.config.base_location}
    /\ UNCHANGED <<procs, clock, ticks, cfgFile, fs, returned, flattenVars>>

\* main.py 30-35: collector = TailscaleCollector(base_location, file_name_format)
Construct(p) ==
    /\ drv[p].pc = "construct"
    /\ drv' = [drv EXCEPT ![p].collector =
                              [base_location |-> drv[p].config.base_location,
                               file_name_format |-> drv[p].config.file_name_format],
                          ![p].pc = "collect"]
    /\ UNCHANGED <<procs, clock, ticks, cfgFile, fs, dirs, returned, flattenVars>>

\* what collect_status does: a document, or RuntimeError
CollectSuccesses == {[ok |-> TRUE, doc |-> d] : d \in StatusDocs}
CollectOutcomes == CollectSuccesses \cup {[ok |-> FALSE, doc |-> None]}

\* main.py 41: status_data = collector.collect_status()
AfterCollect(d, out) ==
    IF out.ok
    THEN [d EXCEPT !.pc = "save_begin", !.status_data = out.doc]
    ELSE [RaiseInLoop(d, "RuntimeError") EXCEPT !.collect_failed = TRUE]

\* main.py 38-41: the start of a cycle
Collect(p, outcomes) ==
    /\ drv[p].pc = "collect"
    /\ drv[p].cycles < CycleLimit
    /\ \E out \in outcomes :
         drv' = [drv EXCEPT ![p] =
                    AfterCollect([@ EXCEPT !.cycles = @ + 1, !.collect_failed = FALSE,
                                           !.error = ""], out)]
    /\ UNCHANGED <<procs, clock, ticks, cfgFile, fs, dirs, returned, flattenVars>>

\* a mutant: the file name rendered from the year and the month only
FilePathByMonth(collector, now) ==
    LET filename == Format(collector.file_name_format,
                           ToString(now.year) \o Pad2(now.month))
    IN  IF filename.ok
        THEN FormatOk(PathJoin(YearMonthPath(collector.base_location, now), filename.s))
        ELSE filename

\* collector.py 114-120: file_path, or the exception of str.format
FilePath(collector, now) ==
    LET filename == Format(collector.file_name_format, DateStr(now))
    IN  IF filename.ok
        THEN FormatOk(PathJoin(YearMonthPath(collector.base_location, now), filename.s))
        ELSE filename

\* collector.py 113-120: now = datetime.now(); mkdir; file_path
SaveBegin(p, mkdirs) ==
    /\ drv[p].pc = "save_begin"
    /\ \E mkdir \in mkdirs :
         LET now == clock
             path == FilePath(drv[p].collector, now)
         IN  IF mkdir # "ok"
             THEN /\ drv' = [drv EXCEPT ![p] = RaiseInLoop(@, mkdir)]
                  /\ dirs' = dirs
             ELSE /\ dirs' = MkdirParents(dirs, drv[p].collector.base_location, now)
                  /\ drv' = [drv EXCEPT ![p] =
                               IF path.ok
                               THEN [@ EXCEPT !.now = now, !.file_path = path.s,
                                              !.pc = "save_prepare"]
                               ELSE RaiseInLoop(@, path.error)]
    /\ UNCHANGED <<procs, clock, ticks, cfgFile, fs, returned, flattenVars>>

\* collector.py 123-126: record = self._prepare_record(status_data), which reads
\* the clock again; df = pd.DataFrame([record])
SavePrepare(p) ==
    /\ drv[p].pc = "save_prepare"
    /\ LET record == prepare_record(drv[p].status_data, clock)
       IN  drv' = [drv EXCEPT ![p].record = record, ![p].df = DataFrame(record),
                              ![p].pc = "save_exists"]
    /\ UNCHANGED <<procs, clock, ticks, cfgFile, fs, dirs, returned, flattenVars>>

\* collector.py 129: if file_path.exists()
SaveExists(p) ==
    /\ drv[p].pc = "save_exists"
    /\ drv' = [drv EXCEPT ![p].pc =
                  IF Exists(fs, drv[p].file_path) THEN "save_read" ELSE "save_write"]
    /\ UNCHANGED <<procs, clock, ticks, cfgFile, fs, dirs, returned, flattenVars>>

\* what pd.read_parquet does with a file: a file that is no Parquet file cannot
\* be read, and a good one may fail to be read (I/O error)
ReadOutcomes(content) ==
    IF content.kind = "parquet" THEN {"ok", "OSError"} ELSE {"ArrowInvalid"}

\* a mutant: a file that cannot be read is taken for a missing one
AfterReadIgnoreError(d, read, content) ==
    IF read = "ok"
    THEN [d EXCEPT !.df = Concat(content.df, @), !.pc = "save_write"]
    ELSE [d EXCEPT !.pc = "save_write"]

\* collector.py 130-131: existing_df = pd.read_parquet(file_path), which may
\* raise; df = pd.concat([existing_df, df], ignore_index=True)
AfterRead(d, read, content) ==
    IF read = "ok"
    THEN [d EXCEPT !.df = Concat(content.df, @), !.pc = "save_write"]
    ELSE RaiseInLoop(d, read)

\* collector.py 130-131
SaveRead(p, reads) ==
    /\ drv[p].pc = "save_read"
    /\ \E read \in ReadOutcomes(fs[drv[p].file_path]) \cap reads :
         drv' = [drv EXCEPT ![p] = AfterRead(@, read, fs[drv[p].file_path])]
    /\ UNCHANGED <<procs, clock, ticks, cfgFile, fs, dirs, returned, flattenVars>>

\* a mutant: the rewrite holds the new record alone
FileAfterWriteOnlyNew(files, path, df, record) ==
    WriteFile(files, path, Parquet(DataFrame(record)))

\* a mutant: the rewrite merges the new record into what the file holds now
FileAfterWriteMerging(files, path, df, record) ==
    IF Exists(files, path) /\ files[path].kind = "parquet"
    THEN WriteFile(files, path, Parquet(Concat(files[path].df, DataFrame(record))))
    ELSE WriteFile(files, path, Parquet(df))

\* df.to_parquet(file_path, index=False): the whole file is replaced by df
FileAfterWrite(files, path, df, record) ==
    WriteFile(files, path, Parquet(df))

\* what df.to_parquet does: it writes the file, fails before the file is opened
\* (the frame cannot be converted, the file cannot be opened), or fails after
\* the file was opened for writing and truncated (disk full)
WriteOutcomes == {"ok", "ArrowTypeError", "OSError"}

\* the file after to_parquet raised `error`
FileAfterFailedWrite(files, path, error) ==
    IF error = "OSError" THEN WriteFile(files, path, Corrupt) ELSE files

\* collector.py 134-136 and main.py 43-44: df.to_parquet(file_path);
\* return file_path; the driver logs the path
SaveWrite(p, writes) ==
    /\ drv[p].pc = "save_write"
    /\ \E write \in writes :
         IF write = "ok"
         THEN /\ fs' = FileAfterWrite(fs, drv[p].file_path, drv[p].df, drv[p].record)
              /\ returned' = Append(returned, [proc |-> p, path |-> drv[p].file_path,
                                               record |-> drv[p].record,
                                               now |-> drv[p].now])
              /\ drv' = [drv EXCEPT ![p] =
                           [DropLocals(@) EXCEPT !.pc = "sleep", !.saved = @ + 1]]
         ELSE /\ fs' = FileAfterFailedWrite(fs, drv[p].file_path, write)
              /\ returned' = returned
              /\ drv' = [drv EXCEPT ![p] = RaiseInLoop(@, write)]
    /\ UNCHANGED <<procs, clock, ticks, cfgFile, dirs, flattenVars>>

\* main.py 46-47: except Exception as e: logger.error(...)
Except(p) ==
    /\ drv[p].pc = "except"
    /\ drv' = [drv EXCEPT ![p].pc = "sleep", ![p].logged = @ + 1]
    /\ UNCHANGED <<procs, clock, ticks, cfgFile, fs, dirs, returned, flattenVars>>

\* main.py 50: time.sleep(config.interval), then the next cycle
Sleep(p) ==
    /\ drv[p].pc = "sleep"
    /\ clock' = AddSeconds(clock, drv[p].config.interval)
    /\ drv' = [drv EXCEPT ![p].pc = "collect"]
    /\ UNCHANGED <<procs, ticks, cfgFile, fs, dirs, returned, flattenVars>>

\* main.py 58-60: KeyboardInterrupt, wherever main() is; one that arrives while
\* to_parquet writes may leave the file half written
Interrupt(p) ==
    /\ drv[p].pc # "exited"
    /\ \E damage \in (IF drv[p].pc = "save_write" THEN {FALSE, TRUE} ELSE {FALSE}) :
         fs' = IF damage THEN WriteFile(fs, drv[p].file_path, Corrupt) ELSE fs
    /\ drv' = [drv EXCEPT ![p] = Exit(@, "KeyboardInterrupt")]
    /\ UNCHANGED <<procs, clock, ticks, cfgFile, dirs, returned, flattenVars>>

\* time passes: one second.  The clock is read at the start of save_status and
\* in _prepare_record only, so time that passes elsewhere shows at the next of
\* these readings and is let pass there.
Tick ==
    /\ \E p \in procs : drv[p].pc \in {"save_begin", "save_prepare"}
    /\ ticks < MaxTicks
    /\ ticks' = ticks + 1
    /\ clock' = AddSeconds(clock, 1)
    /\ UNCHANGED <<procs, cfgFile, fs, dirs, drv, returned, flattenVars>>

-----------------------------------------------------------------------------
(* The driver: one process, the single writer the design assumes. *)

\* the instants at which main() is started
StartInstants == {Instant(2025, 3, 14, 23, 57, 59), Instant(2025, 12, 31, 23, 59, 58)}

InitDriver(ps) ==
    /\ procs = ps
    /\ clock \in StartInstants
    /\ ticks = 0
    /\ cfgFile \in ConfigFiles
    /\ fs = <<>>
    /\ dirs = {}
    /\ drv = [p \in ps |-> InitialProcess]
    /\ returned = <<>>
    /\ fdoc = None
    /\ fsep = DefaultSep
    /\ fphase = "none"
    /\ fout = EmptyDict

Init == InitDriver({1})

Next ==
    \/ \E p \in procs : LoadConfig(p, MkdirOutcomes)
    \/ \E p \in procs : Construct(p)
    \/ \E p \in procs : Collect(p, CollectOutcomes)
    \/ \E p \in procs : SaveBegin(p, MkdirOutcomes)
    \/ \E p \in procs : SavePrepare(p)
    \/ \E p \in procs : SaveExists(p)
    \/ \E p \in procs : SaveRead(p, {"ok", "OSError", "ArrowInvalid"})
    \/ \E p \in procs : SaveWrite(p, WriteOutcomes)
    \/ \E p \in procs : Except(p)
    \/ \E p \in procs : Sleep(p)
    \/ \E p \in procs : Interrupt(p)
    \/ Tick

Spec == Init /\ [][Next]_vars

-----------------------------------------------------------------------------
(* Two driver processes started against the same base directory, which the   *)
(* design rules out and the code does not prevent.  The environment is free  *)
(* of faults: every operation succeeds and no interrupt arrives; time passes  *)
(* in the sleeps of the two drivers.                                         *)

InitConcurrent ==
    /\ InitDriver({1, 2})
    /\ cfgFile = ConfigFile(<< <<"interval", 60>>, <<"base_location", "/data">> >>)
    /\ clock = Instant(2025, 3, 14, 23, 57, 59)

NextConcurrent ==
    \/ \E p \in procs : LoadConfig(p, NoFault)
    \/ \E p \in procs : Construct(p)
    \/ \E p \in procs : Collect(p, CollectSuccesses)
    \/ \E p \in procs : SaveBegin(p, NoFault)
    \/ \E p \in procs : SavePrepare(p)
    \/ \E p \in procs : SaveExists(p)
    \/ \E p \in procs : SaveRead(p, NoFault)
    \/ \E p \in procs : SaveWrite(p, NoFault)
    \/ \E p \in procs : Sleep(p)

SpecConcurrent == InitConcurrent /\ [][NextConcurrent]_vars

-----------------------------------------------------------------------------
(* Direct calls of the two pure methods of TailscaleCollector. *)

Separators == {"_", "."}

InitFlatten ==
    /\ procs = {}
    /\ clock \in StartInstants
    /\ ticks = 0
    /\ cfgFile = NoConfigFile
    /\ fs = <<>>
    /\ dirs = {}
    /\ drv = <<>>
    /\ returned = <<>>
    /\ fdoc \in FlattenDocs
    /\ fsep = DefaultSep
    /\ fphase = "input"
    /\ fout = EmptyDict

\* collector._flatten_dict(doc, sep=sep)
CallFlatten ==
    /\ fphase = "input"
    /\ \E sep \in Separators :
         /\ fsep' = sep
         /\ fout' = flatten_dict(fdoc, "", sep)
    /\ fphase' = "flattened"
    /\ UNCHANGED <<procs, clock, ticks, cfgFile, fs, dirs, drv, returned, fdoc>>

\* collector._prepare_record(doc)
CallPrepare ==
    /\ fphase = "input"
    /\ fout' = prepare_record(fdoc, clock)
    /\ fphase' = "prepared"
    /\ UNCHANGED <<procs, clock, ticks, cfgFile, fs, dirs, drv, returned, fdoc, fsep>>

NextFlatten == CallFlatten \/ CallPrepare

SpecFlatten == InitFlatten /\ [][NextFlatten]_vars

-----------------------------------------------------------------------------
(* The leaves of a document in depth-first document order, each with the key *)
(* its path flattens to: what _flatten_dict visits, before any merging.      *)

RECURSIVE Leaves(_, _, _)
RECURSIVE DictLeaves(_, _, _, _)
RECURSIVE ListLeaves(_, _, _, _)

DictLeaves(entries, i, parent_key, sep) ==
    IF i > Len(entries) THEN <<>>
    ELSE Leaves(entries[i][2], DictChildKey(parent_key, sep, entries[i][1]), sep)
         \o DictLeaves(entries, i + 1, parent_key, sep)

ListLeaves(elems, i, parent_key, sep) ==
    IF i > Len(elems) THEN <<>>
    ELSE Leaves(elems[i], ListChildKey(parent_key, i - 1), sep)
         \o ListLeaves(elems, i + 1, parent_key, sep)

Leaves(obj, parent_key, sep) ==
    IF obj.t = "dict" THEN DictLeaves(obj.items, 1, parent_key, sep)
    ELSE IF obj.t = "list" THEN ListLeaves(obj.items, 1, parent_key, sep)
    ELSE << <<parent_key, obj.v>> >>

\* the value of the last leaf of `leaves` that has key k
LastLeafValue(leaves, k) ==
    LET last == CHOOSE i \in 1..Len(leaves) :
                    /\ leaves[i][1] = k
                    /\ \A j \in (i + 1)..Len(leaves) : leaves[j][1] # k
    IN  leaves[last][2]

-----------------------------------------------------------------------------
(* Claims about the Flattener, under SpecFlatten. *)

\* C9: key-collision policy of _flatten_dict.  The result has exactly the keys
\* of the document's leaves, and for each key it holds the value of the leaf
\* visited last in depth-first document order; so when two distinct paths
\* flatten to the same key the later-visited value wins.  For
\* {"a": {"b": {"c": 1}}, "a_b": 2} with separator _ the result has a_b_c = 1
\* and a_b = 2.
C9_LaterVisitedWins ==
    fphase = "flattened" =>
        LET leaves == Leaves(fdoc, "", fsep)
        IN  /\ DictKeys(fout) = {leaves[i][1] : i \in 1..Len(leaves)}
            /\ \A i \in 1..Len(leaves) :
                 DictGet(fout, leaves[i][1]) = LastLeafValue(leaves, leaves[i][1])
            /\ (fdoc = CollisionExampleDoc /\ fsep = "_") =>
                 /\ DictGet(fout, "a_b_c") = "1"
                 /\ DictGet(fout, "a_b") = "2"

\* C9 witness: a flattened document in which two distinct paths gave the same
\* key with different values, the later one being in the result.
C9_Witness ==
    /\ fphase = "flattened"
    /\ LET leaves == Leaves(fdoc, "", fsep)
       IN  \E i \in 1..Len(leaves) : \E j \in (i + 1)..Len(leaves) :
             /\ leaves[i][1] = leaves[j][1]
             /\ leaves[i][2] # leaves[j][2]
             /\ DictGet(fout, leaves[j][1]) = LastLeafValue(leaves, leaves[j][1])
             /\ DictGet(fout, leaves[j][1]) # leaves[i][2]

\* C10: the record of _prepare_record holds _timestamp, set to the capture
\* instant; its keys are those of the flattened document and _timestamp, every
\* other key keeps its flattened value, and a _timestamp of the document itself
\* is overwritten by the capture instant.
C10_TimestampAdded ==
    fphase = "prepared" =>
        LET flat == flatten_dict(fdoc, "", DefaultSep)
        IN  /\ DictHas(fout, TimestampKey)
            /\ DictGet(fout, TimestampKey) = IsoFormat(clock)
            /\ DictKeys(fout) = DictKeys(flat) \cup {TimestampKey}
            /\ \A k \in DictKeys(flat) \ {TimestampKey} :
                 DictGet(fout, k) = DictGet(flat, k)

\* C10 witness: a prepared record of a document that has a path flattening to
\* _timestamp; the record holds the capture instant, not the document's value.
C10_Witness ==
    /\ fphase = "prepared"
    /\ DictHas(flatten_dict(fdoc, "", DefaultSep), TimestampKey)
    /\ DictGet(fout, TimestampKey) = IsoFormat(clock)
    /\ DictGet(flatten_dict(fdoc, "", DefaultSep), TimestampKey) # IsoFormat(clock)

-----------------------------------------------------------------------------
(* The scalar leaves of a document in depth-first document order, each with  *)
(* its path from the root: the mapping keys and list positions on the way,   *)
(* each with the text that joins it to what comes before (the separator for  *)
(* a mapping key, _ for a list position).                                    *)

RECURSIVE LeafPaths(_, _, _)
RECURSIVE DictLeafPaths(_, _, _, _)
RECURSIVE ListLeafPaths(_, _, _, _)

DictLeafPaths(entries, i, path, sep) ==
    IF i > Len(entries) THEN <<>>
    ELSE LeafPaths(entries[i][2],
                   Append(path, [joiner |-> sep, name |-> entries[i][1]]), sep)
         \o DictLeafPaths(entries, i + 1, path, sep)

ListLeafPaths(elems, i, path, sep) ==
    IF i > Len(elems) THEN <<>>
    ELSE LeafPaths(elems[i],
                   Append(path, [joiner |-> "_", name |-> ToString(i - 1)]), sep)
         \o ListLeafPaths(elems, i + 1, path, sep)

LeafPaths(obj, path, sep) ==
    IF obj.t = "dict" THEN DictLeafPaths(obj.items, 1, path, sep)
    ELSE IF obj.t = "list" THEN ListLeafPaths(obj.items, 1, path, sep)
    ELSE << [path |-> path, v |-> obj.v] >>

RECURSIVE JoinedPath(_, _)
\* the first n steps of the path joined: every step but the first is preceded
\* by its joiner
JoinedPath(path, n) ==
    IF n = 0 THEN ""
    ELSE IF n = 1 THEN path[1].name
    ELSE JoinedPath(path, n - 1) \o path[n].joiner \o path[n].name

RECURSIVE JoinedAfterPrefix(_, _)
\* the first n steps of the path joined, a step being preceded by its joiner
\* only when what was joined before it is not empty
JoinedAfterPrefix(path, n) ==
    IF n = 0 THEN ""
    ELSE LET prefix == JoinedAfterPrefix(path, n - 1)
         IN  IF prefix # "" THEN prefix \o path[n].joiner \o path[n].name
             ELSE path[n].name

\* some mapping or list of the document sits under empty keys only, and has a
\* leaf below it
EmptyPrefixBelowRoot(leafPaths) ==
    \E i \in 1..Len(leafPaths) :
        /\ Len(leafPaths[i].path) >= 2
        /\ leafPaths[i].path[1].name = ""

-----------------------------------------------------------------------------
(* Claims about the PartitionedStore, under Spec (a single writer). *)

\* the calls that returned `path`, in call order
ReturnedTo(path) == SelectSeq(returned, LAMBDA e : e.path = path)

\* the row holds every value of the record
RowKeeps(row, record) ==
    \A k \in DictKeys(record) : k \in DOMAIN row /\ row[k] = DictGet(record, k)

\* the rows a file holds; a file that is no Parquet file holds none
RowsOf(content) == IF content.kind = "parquet" THEN content.df.rows ELSE <<>>

\* every row of old is there in new, at its place and with its values
IsRowPrefix(old, new) ==
    /\ Len(old) <= Len(new)
    /\ \A i \in 1..Len(old) : \A c \in DOMAIN old[i] :
         c \in DOMAIN new[i] /\ new[i][c] = old[i][c]

\* the call of p has just returned its path to the driver
JustSaved(p) == drv[p].pc = "sleep" /\ drv[p].error = ""

SavePcs == {"save_begin", "save_prepare", "save_exists", "save_read", "save_write"}

LoopPcs == SavePcs \cup {"collect", "except", "sleep"}

\* C1: under a single writer, starting from no file, calls on the same date
\* return the same path, and a storage file holds exactly one row per
\* successful call that returned its path, in call order, each row with the
\* values of that call's record; right after a successful call the file is there.
C1_OneFileOneRowPerCall ==
    /\ \A i, j \in 1..Len(returned) :
         DateStr(returned[i].now) = DateStr(returned[j].now)
             => returned[i].path = returned[j].path
    /\ \A path \in DOMAIN fs :
         fs[path].kind = "parquet" =>
             LET calls == ReturnedTo(path)
                 rows == fs[path].df.rows
             IN  /\ Len(calls) >= 1
                 /\ Len(rows) = Len(calls)
                 /\ \A i \in 1..Len(rows) : RowKeeps(rows[i], calls[i].record)
    /\ \A p \in procs :
         JustSaved(p) =>
             /\ returned # <<>>
             /\ returned[Len(returned)].path \in DOMAIN fs
             /\ fs[returned[Len(returned)].path].kind = "parquet"

\* C1 witness: two successive successful calls on one date returned the same
\* path, and the file holds exactly two rows, the two (different) records.
C1_Witness ==
    /\ Len(returned) = 2
    /\ JustSaved(1)
    /\ DateStr(returned[1].now) = DateStr(returned[2].now)
    /\ returned[1].path = returned[2].path
    /\ returned[1].record # returned[2].record
    /\ DOMAIN fs = {returned[1].path}
    /\ Len(RowsOf(fs[returned[1].path])) = 2
    /\ RowKeeps(fs[returned[1].path].df.rows[1], returned[1].record)
    /\ RowKeeps(fs[returned[1].path].df.rows[2], returned[2].record)

\* C2 as stated: across every step, whether the call succeeds or fails, a file
\* that exists stays and the rows it held are a prefix of the rows it holds.
C2_AppendOnlyAlways ==
    [][\A path \in DOMAIN fs :
          /\ path \in DOMAIN fs'
          /\ IsRowPrefix(RowsOf(fs[path]), RowsOf(fs'[path]))]_vars

\* C2 as amended: a file that exists is never deleted; every step either leaves
\* the rows it held as a prefix of the rows it holds, or is a rewrite
\* (to_parquet) of that file that failed or was interrupted after the file was
\* truncated, which leaves the file unreadable.
C2_AppendOnlyUnlessRewriteFails ==
    [][\A path \in DOMAIN fs :
          /\ path \in DOMAIN fs'
          /\ \/ /\ fs'[path].kind = fs[path].kind
                /\ IsRowPrefix(RowsOf(fs[path]), RowsOf(fs'[path]))
             \/ /\ fs[path].kind = "parquet"
                /\ fs'[path].kind = "corrupt"
                /\ \E p \in procs :
                     /\ drv[p].pc = "save_write"
                     /\ drv[p].file_path = path
                     /\ drv'[p].pc \in {"except", "exited"}]_vars

\* C2 witness: a file that got a second row appended after a call that failed
\* while reading or writing left it as it was.
C2_Witness ==
    /\ drv[1].failed_at \in {"save_read", "save_write"}
    /\ JustSaved(1)
    /\ \E path \in DOMAIN fs : Len(RowsOf(fs[path])) >= 2

\* C3: the columns of a storage file are the union of the keys of the records
\* appended to it, and a row holds its record's value in the columns its record
\* has and NaN in every other column.
C3_ColumnsAreUnionOfKeys ==
    \A path \in DOMAIN fs :
        fs[path].kind = "parquet" =>
            LET calls == ReturnedTo(path)
                df == fs[path].df
            IN  /\ Range(df.columns) = UNION {DictKeys(calls[i].record) : i \in 1..Len(calls)}
                /\ Len(df.columns) = Cardinality(Range(df.columns))
                /\ \A i \in 1..Len(df.rows) :
                     /\ i <= Len(calls)
                     /\ DOMAIN df.rows[i] = Range(df.columns)
                     /\ \A c \in Range(df.columns) :
                          df.rows[i][c] = IF DictHas(calls[i].record, c)
                                          THEN DictGet(calls[i].record, c)
                                          ELSE NaN

\* C3 witness: a file of two rows whose second record has a key the first lacks
\* and lacks a key the first has; each row holds NaN where its record had no key.
C3_Witness ==
    \E path \in DOMAIN fs :
        /\ fs[path].kind = "parquet"
        /\ Len(fs[path].df.rows) = 2
        /\ \E c1, c2 \in Range(fs[path].df.columns) :
             /\ ~DictHas(ReturnedTo(path)[1].record, c1)
             /\ DictHas(ReturnedTo(path)[2].record, c1)
             /\ fs[path].df.rows[1][c1] = NaN
             /\ fs[path].df.rows[2][c1] # NaN
             /\ DictHas(ReturnedTo(path)[1].record, c2)
             /\ ~DictHas(ReturnedTo(path)[2].record, c2)
             /\ fs[path].df.rows[1][c2] # NaN
             /\ fs[path].df.rows[2][c2] = NaN

-----------------------------------------------------------------------------
(* The path layout as section 6 of the specification words it. *)

\* n written with two digits
TwoDigits(n) == ToString(n \div 10) \o ToString(n % 10)

\* yyyymmdd
YyyyMmDd(now) == ToString(now.year) \o TwoDigits(now.month) \o TwoDigits(now.day)

Placeholder == <<"{", "d", "a", "t", "e", "}">>

PlaceholderAt(chars, i) ==
    i + 5 <= Len(chars) /\ SubSeq(chars, i, i + 5) = Placeholder

\* the template with every {date} replaced by date, all else left as it is
RECURSIVE ReplaceDate(_, _, _)
ReplaceDate(chars, i, date) ==
    IF i > Len(chars) THEN ""
    ELSE IF PlaceholderAt(chars, i) THEN date \o ReplaceDate(chars, i + 6, date)
    ELSE chars[i] \o ReplaceDate(chars, i + 1, date)

\* every brace of the template belongs to a placeholder {date}
RECURSIVE BracesOnlyAsPlaceholder(_, _)
BracesOnlyAsPlaceholder(chars, i) ==
    IF i > Len(chars) THEN TRUE
    ELSE IF PlaceholderAt(chars, i) THEN BracesOnlyAsPlaceholder(chars, i + 6)
    ELSE chars[i] \notin {"{", "}"} /\ BracesOnlyAsPlaceholder(chars, i + 1)

\* <base_location>/<yyyy>/<mm>/<rendered file name>
LayoutPath(base_location, template, now) ==
    base_location \o "/" \o ToString(now.year) \o "/" \o TwoDigits(now.month)
    \o "/" \o ReplaceDate(template, 1, YyyyMmDd(now))

\* what C4 says of process p: once save_status is past its mkdir it did not
\* raise on the template, the path it computed is the layout path, and the
\* paths it returned are layout paths of files that are there
PathIsLayoutPath(p) ==
    LET c == drv[p].collector
    IN  /\ (drv[p].pc = "except" /\ drv[p].failed_at = "save_begin")
              => drv[p].error = "OSError"
        /\ drv[p].pc \in SavePcs \ {"save_begin"}
              => drv[p].file_path = LayoutPath(c.base_location, c.file_name_format, drv[p].now)
        /\ \A i \in 1..Len(returned) :
              returned[i].proc = p =>
                  /\ returned[i].path =
                         LayoutPath(c.base_location, c.file_name_format, returned[i].now)
                  /\ returned[i].path \in DOMAIN fs

-----------------------------------------------------------------------------
(* Claims about the driver, under Spec. *)

\* C5: once the loop runs, an error of collect_status or save_status does not
\* end the process: the step that raises goes to the handler of the loop, the
\* handler logs and goes on to sleep, sleep lasts the configured interval and
\* leads to the next collect, save_status is not entered in a cycle whose
\* collect_status failed, and the process leaves the loop only by
\* KeyboardInterrupt, with status 0.
C5_LoopSurvivesErrors ==
    [][\A p \in procs :
          LET d == drv[p]
              e == drv'[p]
          IN  /\ (d.pc \in LoopPcs /\ e.pc = "exited")
                    => (e.error = "KeyboardInterrupt" /\ e.exit_code = 0)
              /\ (d.pc \in LoopPcs /\ e.error \notin {d.error, "", "KeyboardInterrupt"})
                    => e.pc = "except"
              /\ (d.pc = "collect" /\ e.pc = "except") => e.collect_failed
              /\ d.pc \in SavePcs => ~d.collect_failed
              /\ (d.pc = "except" /\ e.pc \notin {"except", "exited"})
                    => (e.pc = "sleep" /\ e.logged = d.logged + 1)
              /\ (d.pc = "sleep" /\ e.pc \notin {"sleep", "exited"})
                    => (e.pc = "collect" /\ clock' = AddSeconds(clock, d.config.interval))]_vars

\* C5 witness: a process that logged the error of a failed collect_status and
\* the error of a failed save_status and is in a later cycle, saving.
C5_Witness ==
    /\ drv[1].logged >= 2
    /\ drv[1].cycles >= 3
    /\ drv[1].failed_at \in SavePcs
    /\ drv[1].pc = "save_write"
    /\ drv[1].exit_code = 0 - 1

\* C7: a step of save_status that fails (mkdir, read_parquet, to_parquet)
\* raises to the driver, returns no path and keeps nothing of the record; a
\* failed read leaves the files as they were, and a file that cannot be read is
\* never rewritten; a successful save adds one row, the call's own record, to
\* the rows the file held.
C7_FailurePropagatesNoBuffer ==
    [][\A p \in procs :
          LET d == drv[p]
              e == drv'[p]
              before == IF Exists(fs, d.file_path) THEN RowsOf(fs[d.file_path]) ELSE <<>>
          IN  /\ (d.pc \in SavePcs /\ d.pc # e.pc /\ e.pc \notin SavePcs \cup {"sleep", "exited"})
                    => e.pc = "except"
              /\ (d.pc \in SavePcs /\ e.pc = "except")
                    => /\ e.error \notin {"", "KeyboardInterrupt"}
                       /\ returned' = returned
                       /\ e.record = EmptyDict
                       /\ e.df = None
                       /\ e.saved = d.saved
              /\ (d.pc = "save_read" /\ e.pc = "except") => fs' = fs
              /\ (d.pc = "save_read" /\ fs[d.file_path].kind # "parquet")
                    => e.pc \in {"save_read", "except", "exited"}
              /\ (d.pc = "save_write" /\ e.pc = "sleep")
                    => LET after == RowsOf(fs'[d.file_path])
                       IN  /\ Len(after) = Len(before) + 1
                           /\ IsRowPrefix(before, after)
                           /\ RowKeeps(after[Len(after)], d.record)
                           /\ returned' = Append(returned, returned'[Len(returned')])]_vars

\* C7 witness: a call failed while reading the existing file, the next call
\* succeeded, and the file holds the records of the two successful calls only.
C7_Witness ==
    /\ drv[1].failed_at = "save_read"
    /\ drv[1].cycles = 3
    /\ drv[1].saved = 2
    /\ JustSaved(1)
    /\ Len(returned) = 2
    /\ returned[1].path = returned[2].path
    /\ Len(RowsOf(fs[returned[2].path])) = 2

\* C8: if load_config fails (no file, empty file, a required field missing,
\* interval <= 0), main exits with status 1, having constructed no collector
\* and run no cycle; every exit on KeyboardInterrupt has status 0 and every
\* other exit status 1.
C8_InvalidConfigIsFatal ==
    \A p \in procs :
        /\ (~load_config(cfgFile).ok /\ drv[p].pc # "load_config")
              => /\ drv[p].pc = "exited"
                 /\ drv[p].collector = None
                 /\ drv[p].config = None
                 /\ drv[p].cycles = 0
                 /\ drv[p].error # "KeyboardInterrupt" => drv[p].exit_code = 1
        /\ (cfgFile \in InvalidConfigFiles) => ~load_config(cfgFile).ok
        /\ drv[p].pc = "exited"
              => drv[p].exit_code = (IF drv[p].error = "KeyboardInterrupt" THEN 0 ELSE 1)

\* C8 witness: main has exited with status 1 on a configuration whose interval
\* is 0, with no collector and no cycle.
C8_Witness ==
    /\ cfgFile = ConfigFile(<< <<"interval", 0>>, <<"base_location", "/data">> >>)
    /\ drv[1].pc = "exited"
    /\ drv[1].exit_code = 1
    /\ drv[1].error = "ValueError"
    /\ drv[1].collector = None
    /\ drv[1].cycles = 0

-----------------------------------------------------------------------------
(* Claims about the files of different dates, under Spec. *)

\* two instants of the same calendar day
SameDate(a, b) == a.year = b.year /\ a.month = b.month /\ a.day = b.day

\* the template has a placeholder {date} and no other brace
HasDatePlaceholder(chars) ==
    /\ BracesOnlyAsPlaceholder(chars, 1)
    /\ \E i \in 1..Len(chars) : PlaceholderAt(chars, i)

\* the file at path is created or its content changes in this step
FileChanges(path) == path \notin DOMAIN fs \/ fs'[path] # fs[path]

\* what a step may do to the files when the calls under the templates in
\* `templates` are looked at: the frame a call builds after reading holds the
\* rows of its own file and its own row; a file changes only in the write of a
\* call whose path it is, and no call of another date has returned that path.
OnlyFileOfDateTouched(templates) ==
    /\ \A p \in procs :
          (drv[p].pc = "save_read" /\ drv'[p].pc = "save_write") =>
              drv'[p].df = Concat(fs[drv[p].file_path].df, drv[p].df)
    /\ \A path \in DOMAIN fs' :
          FileChanges(path) =>
              \E p \in procs :
                  /\ drv[p].pc = "save_write"
                  /\ drv[p].file_path = path
                  /\ drv[p].collector.file_name_format \in templates =>
                        \A i \in 1..Len(returned) :
                            returned[i].path = path => SameDate(returned[i].now, drv[p].now)

\* C12 as stated: a save_status call on date D reads and writes only the
\* storage file for D; the files of every other date keep exactly the rows
\* they had.
C12_OnlyFileOfDateTouched ==
    [][OnlyFileOfDateTouched(Templates)]_vars

\* C12 as amended: the same for a template that has a {date} placeholder; a
\* file name that is the same on every date gives one file per month, to which
\* the calls of every day of that month append.
C12_OnlyFileOfDateTouchedWithPlaceholder ==
    [][OnlyFileOfDateTouched({t \in Templates : HasDatePlaceholder(t)})]_vars

\* C12 witness: under the default template a call on 2025-03-14 and a later
\* call on 2025-03-15 have returned; there are two files in /data/2025/03, and
\* the file of the 14th holds the rows of the calls of the 14th only.
C12_Witness ==
    /\ drv[1].collector # None
    /\ drv[1].collector.file_name_format = DefaultTemplate
    /\ JustSaved(1)
    /\ Len(returned) >= 2
    /\ LET first == returned[1]
           last == returned[Len(returned)]
       IN  /\ first.now.month = 3 /\ first.now.day = 14
           /\ last.now.month = 3 /\ last.now.day = 15
           /\ first.path # last.path
           /\ first.path \in DOMAIN fs /\ last.path \in DOMAIN fs
           /\ Len(RowsOf(fs[last.path])) = 1
           /\ Len(RowsOf(fs[first.path])) = Len(returned) - 1
           /\ RowKeeps(RowsOf(fs[first.path])[1], first.record)

\* the instants _prepare_record can read from the clock in a call of
\* save_status that read `now` at its start
LaterReadings(now) == {AddSeconds(now, k) : k \in 0..MaxTicks}

\* the calendar day of the timestamp ts, written by a call that began at `now`,
\* is the day of `now`
TimestampOnDayOf(ts, now) ==
    \E t \in LaterReadings(now) : IsoFormat(t) = ts /\ SameDate(t, now)

\* C13: every row stored in the storage file for date D belongs to that day.
\* When save_status has returned under a template that puts the date into the
\* file name, the row it added to the file of the date of its first clock
\* reading holds a _timestamp of that same date.
C13_RowsBelongToFileDate ==
    \A p \in procs :
        (/\ JustSaved(p)
         /\ returned # <<>>
         /\ HasDatePlaceholder(drv[p].collector.file_name_format)) =>
            LET call == returned[Len(returned)]
                rows == RowsOf(fs[call.path])
            IN  /\ rows # <<>>
                /\ TimestampOnDayOf(rows[Len(rows)][TimestampKey], call.now)

-----------------------------------------------------------------------------
(* Claim about concurrent writers, under SpecConcurrent. *)

\* C6: save_status takes no lock between exists/read and the rewrite: a call
\* that returns has replaced the whole file by the frame it built from what it
\* read earlier, whatever another writer stored in between (the last
\* whole-file write wins), and both calls return their path.
C6_LastWholeFileWriteWins ==
    [][\A p \in procs :
          (drv[p].pc = "save_write" /\ drv'[p].pc = "sleep") =>
              /\ fs'[drv[p].file_path] = Parquet(drv[p].df)
              /\ returned' = Append(returned, [proc |-> p, path |-> drv[p].file_path,
                                               record |-> drv[p].record,
                                               now |-> drv[p].now])]_vars

\* C6 witness: two writers each returned the same path from a successful
\* save_status, and the file holds one row only: the row of the writer that
\* wrote first is lost.
C6_Witness ==
    /\ Len(returned) = 2
    /\ returned[1].proc # returned[2].proc
    /\ returned[1].path = returned[2].path
    /\ \A p \in procs : JustSaved(p) /\ drv[p].saved = 1
    /\ fs[returned[2].path].kind = "parquet"
    /\ Len(fs[returned[2].path].df.rows) = 1
    /\ RowKeeps(fs[returned[2].path].df.rows[1], returned[2].record)
    /\ ~RowKeeps(fs[returned[2].path].df.rows[1], returned[1].record)

=============================================================================
